---- MODULE Spec2Model ----
(***************************************************************************)
(* Student Portal API (src/api/index.js) and the password listing script   *)
(* (src/unnamed/part_000): the in-memory student directory, its refresh    *)
(* from the record store, login, and the cursor-paginated drains of the    *)
(* attendance and course tables.                                           *)
(*                                                                         *)
(* Strings are sequences of one-character strings, so that trim(),         *)
(* toLowerCase() and the identity regular expressions are computed.        *)
(* A missing field (undefined) and the empty string are both <<>>: every   *)
(* place of the source that reads such a field only tests its truthiness.  *)
(***************************************************************************)
EXTENDS Integers, Sequences, FiniteSets, TLC

VARIABLES
    phase,              \* "booting" | "serving" | "exited" | "crashed"
    MASTER_PORTAL_PW,   \* process.env.MASTER_PORTAL_PW (<<>>: not set)
    STUDENTS,           \* the live directory, in Object.values() order
    loads,              \* loadStudentsFromAirtable() invocations in flight
    started,            \* number of invocations started so far
    liveFrom,           \* the answer of the store the live directory was built from
    lookup,             \* the request the latest step handled (None: no request)
    req                 \* the request handler in progress that drains a table;
                        \* sent, pages and failed record the cursors it sent,
                        \* the pages the store served, a failed page request
                        \* and, in courseFetch and answers, what the lookup of
                        \* the course and each percentage lookup got

vars == <<phase, MASTER_PORTAL_PW, STUDENTS, loads, started, liveFrom,
          lookup, req>>

-----------------------------------------------------------------------------
(* Bounds *)

\* loadStudentsFromAirtable() invocations in one run (boot + timer ticks)
MaxStarts == 3
\* records the store puts in one page of the Students table
PageSize == 2
\* pages the store cuts the answer to one drain into
MaxPages == 2

-----------------------------------------------------------------------------
(* Strings *)

None == [none |-> TRUE]

Str0 == <<>>

IsSpace(c) == c \in {" "}
IsDigit(c) == c \in {"0", "1", "2", "3", "4", "5", "6", "7", "8", "9"}
IsUpper(c) == c \in {"A", "D", "J", "M", "S"}
IsLower(c) == c \in {"a", "d", "e", "j", "l", "m", "o", "s"}
IsLetter(c) == IsUpper(c) \/ IsLower(c)
\* hyphen, en dash (written "--") and em dash (written "---")
IsDash(c) == c \in {"-", "--", "---"}
IsWord(c) == IsLetter(c) \/ IsDigit(c) \/ c = "_"

ToLowerChar(c) ==
    CASE c = "A" -> "a"
      [] c = "D" -> "d"
      [] c = "J" -> "j"
      [] c = "M" -> "m"
      [] c = "S" -> "s"
      [] OTHER -> c

ToLowerCase(s) == [i \in 1..Len(s) |-> ToLowerChar(s[i])]

\* index of the first non-space character, Len(s)+1 when there is none
FirstNonSpace(s) ==
    IF \E i \in 1..Len(s) : ~IsSpace(s[i])
    THEN CHOOSE i \in 1..Len(s) :
            ~IsSpace(s[i]) /\ \A j \in 1..(i - 1) : IsSpace(s[j])
    ELSE Len(s) + 1

LastNonSpace(s) ==
    IF \E i \in 1..Len(s) : ~IsSpace(s[i])
    THEN CHOOSE i \in 1..Len(s) :
            ~IsSpace(s[i]) /\ \A j \in (i + 1)..Len(s) : IsSpace(s[j])
    ELSE 0

Trim(s) == SubSeq(s, FirstNonSpace(s), LastNonSpace(s))

\* preferredName.trim().toLowerCase()
Normalize(s) == ToLowerCase(Trim(s))

\* a || b on strings
OrElse(a, b) == IF a # Str0 THEN a ELSE b

-----------------------------------------------------------------------------
(* Helpers of the server *)

PORTAL_PW_SECRET == "server-key"

\* HMAC-SHA256 under key k, base64url: modelled as collision free
Hmac(k, msg) == <<k>> \o msg

derivePassword(studentId) == <<"ac-">> \o Hmac(PORTAL_PW_SECRET, Trim(studentId))

\* length of the run of digits of s that starts at position i
DigitRun(s, i) ==
    IF i > Len(s) \/ ~IsDigit(s[i]) THEN 0
    ELSE (CHOOSE j \in i..Len(s) :
              /\ \A k \in i..j : IsDigit(s[k])
              /\ (j = Len(s) \/ ~IsDigit(s[j + 1]))) - i + 1

\* /^([A-Za-z]\d{2,})\s*[-–—]\s*/
MatchesDashed(s) ==
    /\ Len(s) >= 3
    /\ IsLetter(s[1])
    /\ DigitRun(s, 2) >= 2
    /\ \E d \in (2 + DigitRun(s, 2))..Len(s) :
          /\ IsDash(s[d])
          /\ \A k \in (2 + DigitRun(s, 2))..(d - 1) : IsSpace(s[k])

\* /^([A-Za-z]\d{2,})\b/
MatchesToken(s) ==
    /\ Len(s) >= 3
    /\ IsLetter(s[1])
    /\ DigitRun(s, 2) >= 2
    /\ (1 + DigitRun(s, 2) = Len(s) \/ ~IsWord(s[2 + DigitRun(s, 2)]))

extractStudentId(rawName) ==
    IF MatchesDashed(rawName) THEN SubSeq(rawName, 1, 1 + DigitRun(rawName, 2))
    ELSE IF MatchesToken(rawName) THEN SubSeq(rawName, 1, 1 + DigitRun(rawName, 2))
    ELSE Str0

-----------------------------------------------------------------------------
(* The Students table of the record store *)

StudentRecord(id, pn, name, sid) ==
    [id |-> id, preferredName |-> pn, rawName |-> name, StudentID |-> sid]

\* "S010 - Sam", alias "Sam"
recSam == StudentRecord("recA", <<"S", "a", "m">>,
              <<"S", "0", "1", "0", " ", "-", " ", "S", "a", "m">>, Str0)
\* "S011", alias "sam": equal to "Sam" once trimmed and lower-cased
recsam == StudentRecord("recB", <<"s", "a", "m">>, <<"S", "0", "1", "1">>, Str0)
\* "Jo Doe" holds no token: the StudentID field is used
recJo == StudentRecord("recC", <<"J", "o">>,
              <<"J", "o", " ", "D", "o", "e">>, <<"S", "0", "1", "2">>)
\* a record with no Preferred Name
recNoAlias == StudentRecord("recD", Str0,
              <<"S", "0", "1", "3", "---", "D", "e">>, Str0)
\* a record with neither a token in its Name nor a StudentID
recNoId == StudentRecord("recE", <<"A", "l">>, <<"A", "l">>, Str0)

\* the contents the table can have when a request reaches the store
Tables ==
    { <<recSam, recsam>>,
      <<recJo, recNoAlias, recSam>>,
      <<recNoId>> }

NoCursor == Str0

Min(a, b) == IF a < b THEN a ELSE b

\* what the store answers to a request without an offset parameter
FirstPage(table) ==
    [kind |-> "json",
     records |-> SubSeq(table, 1, Min(PageSize, Len(table))),
     offset |-> IF Len(table) > PageSize THEN <<"c", "1">> ELSE NoCursor,
     table |-> table]

\* a 200 answer whose body is JSON without a records array
NoRecordsBody ==
    [kind |-> "json", records |-> <<>>, offset |-> NoCursor, table |-> <<>>]

\* a 200 answer whose body response.json() rejects
UnparsableBody ==
    [kind |-> "unparsable", records |-> <<>>, offset |-> NoCursor, table |-> <<>>]

-----------------------------------------------------------------------------
(* The directory *)

\* the identity token of a record: extractStudentId(rawName) || StudentID || null
StudentIdOf(r) == OrElse(extractStudentId(r.rawName), r.StudentID)

Entry(r) ==
    [preferredName |-> r.preferredName,
     studentId |-> StudentIdOf(r),
     password |-> derivePassword(StudentIdOf(r))]

\* next[key] = e on an object whose Object.values() order is the sequence m
Put(m, e) ==
    IF \E i \in 1..Len(m) : m[i].preferredName = e.preferredName
    THEN [i \in 1..Len(m) |->
             IF m[i].preferredName = e.preferredName THEN e ELSE m[i]]
    ELSE Append(m, e)

\* the loop without the continue: an entry for every record
RECURSIVE BuildFromAll(_, _)
BuildFromAll(next, records) ==
    IF records = <<>> THEN next
    ELSE BuildFromAll(Put(next, Entry(Head(records))), Tail(records))

RECURSIVE BuildFrom(_, _)
BuildFrom(next, records) ==
    IF records = <<>> THEN next
    ELSE LET r == Head(records) IN
         IF r.preferredName = Str0 \/ StudentIdOf(r) = Str0
         THEN BuildFrom(next, Tail(records))
         ELSE BuildFrom(Put(next, Entry(r)), Tail(records))

\* the loop over data.records || [] that fills next
BuildNext(records) == BuildFrom(<<>>, records)

\* Object.assign(STUDENTS, next): the entries of next written into the live object
RECURSIVE PublishInPlace(_, _)
PublishInPlace(old, next) ==
    IF next = <<>> THEN old ELSE PublishInPlace(Put(old, Head(next)), Tail(next))

\* STUDENTS = next
Publish(old, next) == next

\* Object.values(STUDENTS).find(s => s.preferredName === preferredName)
FindExact(students, preferredName) ==
    LET hits == {i \in 1..Len(students) :
                    students[i].preferredName = preferredName}
    IN  IF hits = {} THEN None
        ELSE students[CHOOSE i \in hits : \A j \in hits : i <= j]

\* Object.values(STUDENTS).find(s => normalize(s.preferredName) === normalized)
Find(students, preferredName) ==
    LET normalized == Normalize(preferredName)
        hits == {i \in 1..Len(students) :
                    Normalize(students[i].preferredName) = normalized}
    IN  IF hits = {} THEN None
        ELSE students[CHOOSE i \in hits : \A j \in hits : i <= j]

-----------------------------------------------------------------------------
(* The password listing script (src/unnamed/part_000) *)

\* the key of the script: the same key material as the server's
ScriptSecret == PORTAL_PW_SECRET

\* derivePassword of the script
ScriptDerivePassword(studentId) ==
    <<"ac-">> \o Hmac(ScriptSecret, Trim(studentId))

\* extractStudentId(rawName) || r.fields["StudentID"] || r.id; a record id is
\* one token without blanks
ScriptStudentIdOf(r) ==
    OrElse(OrElse(extractStudentId(r.rawName), r.StudentID), <<r.id>>)

\* studentMap of the script, keyed by record id: one entry per record with a
\* Preferred Name
RECURSIVE ScriptStudentMap(_)
ScriptStudentMap(records) ==
    IF records = <<>> THEN <<>>
    ELSE LET r == Head(records) IN
         IF r.preferredName = Str0 \/ ScriptStudentIdOf(r) = Str0
         THEN ScriptStudentMap(Tail(records))
         ELSE <<[preferredName |-> r.preferredName,
                 studentId |-> ScriptStudentIdOf(r),
                 recordId |-> r.id,
                 password |-> ScriptDerivePassword(ScriptStudentIdOf(r))]>>
              \o ScriptStudentMap(Tail(records))

\* the (alias, secret) pairs the script prints and writes for a snapshot whose
\* students link no course of January 2026: all of studentMap
ScriptPairs(records) ==
    {[preferredName |-> e.preferredName, password |-> e.password] :
        e \in {ScriptStudentMap(records)[i] :
                 i \in 1..Len(ScriptStudentMap(records))}}

-----------------------------------------------------------------------------
(* POST /login *)

Response(status, body) == [status |-> status, body |-> body]

InvalidCredentials == Response(401, [error |-> "Invalid credentials"])

LoggedIn(student, staffOverride) ==
    Response(200, [success |-> TRUE,
                   staffOverride |-> staffOverride,
                   student |-> [preferredName |-> student.preferredName,
                                studentId |-> student.studentId]])

\* as Login, with an unknown alias answered as the other routes answer it
LoginNotFound(students, master, preferredName, password) ==
    IF preferredName = Str0 \/ password = Str0
    THEN Response(400, [error |-> "Preferred name and password are required"])
    ELSE LET student == Find(students, preferredName) IN
         IF student = None THEN Response(404, [error |-> "Student not found"])
         ELSE IF master # Str0 /\ password = master THEN LoggedIn(student, TRUE)
         ELSE IF password # student.password THEN InvalidCredentials
         ELSE LoggedIn(student, FALSE)

\* as Login, with the master override tested before the alias is looked up
LoginMasterFirst(students, master, preferredName, password) ==
    IF preferredName = Str0 \/ password = Str0
    THEN Response(400, [error |-> "Preferred name and password are required"])
    ELSE IF master # Str0 /\ password = master
    THEN LoggedIn([preferredName |-> preferredName, studentId |-> Str0], TRUE)
    ELSE LET student == Find(students, preferredName) IN
         IF student = None THEN InvalidCredentials
         ELSE IF password # student.password THEN InvalidCredentials
         ELSE LoggedIn(student, FALSE)

\* the handler's answer to a body {preferredName, password}
Login(students, master, preferredName, password) ==
    IF preferredName = Str0 \/ password = Str0
    THEN Response(400, [error |-> "Preferred name and password are required"])
    ELSE LET student == Find(students, preferredName) IN
         IF student = None THEN InvalidCredentials
         ELSE IF master # Str0 /\ password = master THEN LoggedIn(student, TRUE)
         ELSE IF password # student.password THEN InvalidCredentials
         ELSE LoggedIn(student, FALSE)

\* aliases of the requests that only look the directory up
LookupNames == { <<" ", "S", "A", "M", " ">>, <<"A", "l">> }

MasterPasswords == {Str0, <<"m", "a", "s", "t", "e", "r">>}

LoginNames ==
    { Str0, <<"s", "a", "m">>, <<" ", "S", "A", "M", " ">>, <<"A", "l">> }

LoginPasswords ==
    { Str0, <<"w", "r", "o", "n", "g">>, <<"m", "a", "s", "t", "e", "r">>,
      derivePassword(<<"S", "0", "1", "0">>),
      derivePassword(<<"S", "0", "1", "1">>),
      derivePassword(<<"recE">>) }

-----------------------------------------------------------------------------
(* Boot, the refresh timer and loadStudentsFromAirtable *)

Load(seq, origin, pc, body) ==
    [seq |-> seq, origin |-> origin, pc |-> pc, body |-> body]

NoBody == [kind |-> "none", records |-> <<>>, offset |-> NoCursor, table |-> <<>>]

Alive == phase \in {"booting", "serving"}

\* the answer STUDENTS = next was built from, and the invocation that built it
Snapshot(body, seq) ==
    [kind |-> body.kind, records |-> body.records, offset |-> body.offset,
     table |-> body.table, seq |-> seq]

\* a refresh has its answer in hand and will build another directory
RefreshPending ==
    \E l \in loads : l.pc = "json" /\ l.body.kind = "json"
                     /\ BuildNext(l.body.records) # STUDENTS

Init ==
    /\ phase = "booting"
    /\ MASTER_PORTAL_PW \in MasterPasswords
    /\ STUDENTS = <<>>
    /\ loads = {Load(1, "boot", "fetch", NoBody)}
    /\ started = 1
    /\ liveFrom = None
    /\ lookup = None
    /\ req = None

\* setInterval(loadStudentsFromAirtable, 5 * 60 * 1000) fires
Tick ==
    /\ phase = "serving"
    /\ started < MaxStarts
    /\ started' = started + 1
    /\ loads' = loads \cup {Load(started + 1, "tick", "fetch", NoBody)}
    /\ lookup' = None
    /\ UNCHANGED <<phase, MASTER_PORTAL_PW, STUDENTS, liveFrom, req>>

\* the phase after invocation l has thrown, had boot gone on to listen
PhasesAfterThrowListen(l) ==
    IF l.origin = "boot" THEN {"serving"} ELSE {"serving", "crashed"}

\* the phase after invocation l has thrown: boot catches and calls
\* process.exit(1); nothing awaits or catches the promise of a timer tick, and
\* an unhandled rejection ends the process or only warns, by the runtime's
\* version and flags
PhasesAfterThrow(l) ==
    IF l.origin = "boot" THEN {"exited"} ELSE {"serving", "crashed"}

Throws(l) ==
    /\ loads' = loads \ {l}
    /\ phase' \in PhasesAfterThrow(l)
    /\ lookup' = None

\* await fetch(url) resolves with resp.ok
FetchOk(l) ==
    /\ Alive /\ l \in loads /\ l.pc = "fetch"
    /\ \E t \in Tables :
          \E body \in {FirstPage(t), NoRecordsBody, UnparsableBody} :
             loads' = (loads \ {l}) \cup {Load(l.seq, l.origin, "json", body)}
    /\ lookup' = None
    /\ UNCHANGED <<phase, MASTER_PORTAL_PW, STUDENTS, started, liveFrom, req>>

\* await fetch(url) resolves with !resp.ok
FetchNotOk(l) ==
    /\ Alive /\ l \in loads /\ l.pc = "fetch"
    /\ loads' = (loads \ {l}) \cup {Load(l.seq, l.origin, "text", NoBody)}
    /\ lookup' = None
    /\ UNCHANGED <<phase, MASTER_PORTAL_PW, STUDENTS, started, liveFrom, req>>

\* await fetch(url) rejects
FetchThrows(l) ==
    /\ Alive /\ l \in loads /\ l.pc = "fetch"
    /\ Throws(l)
    /\ UNCHANGED <<MASTER_PORTAL_PW, STUDENTS, started, liveFrom, req>>

\* await resp.text() returns; throw new Error("Students fetch failed ...")
TextReturns(l) ==
    /\ Alive /\ l \in loads /\ l.pc = "text"
    /\ Throws(l)
    /\ UNCHANGED <<MASTER_PORTAL_PW, STUDENTS, started, liveFrom, req>>

\* STUDENTS = {} ahead of the parse, filled in once it has returned
StudentsResetFirst(old, body) ==
    IF body.kind = "json" THEN Publish(old, BuildNext(body.records)) ELSE <<>>

\* the directory once await resp.json() has settled on body: a rejection
\* leaves the function before STUDENTS = next
StudentsAfterJson(old, body) ==
    IF body.kind = "json" THEN Publish(old, BuildNext(body.records)) ELSE old

\* await resp.json() rejects
JsonThrows(l) ==
    /\ Alive /\ l \in loads /\ l.pc = "json" /\ l.body.kind # "json"
    /\ Throws(l)
    /\ STUDENTS' = StudentsAfterJson(STUDENTS, l.body)
    /\ UNCHANGED <<MASTER_PORTAL_PW, started, liveFrom, req>>

\* await resp.json() returns data: next is built and STUDENTS = next, then the
\* caller goes on (boot: setInterval and app.listen)
JsonReturns(l) ==
    /\ Alive /\ l \in loads /\ l.pc = "json" /\ l.body.kind = "json"
    /\ STUDENTS' = StudentsAfterJson(STUDENTS, l.body)
    /\ liveFrom' = Snapshot(l.body, l.seq)
    /\ loads' = loads \ {l}
    /\ phase' = IF l.origin = "boot" THEN "serving" ELSE phase
    /\ lookup' = None
    /\ UNCHANGED <<MASTER_PORTAL_PW, started, req>>

\* POST /login with body {preferredName, password}
PostLogin ==
    /\ phase = "serving"
    /\ \E n \in LoginNames, p \in LoginPasswords :
          lookup' = [op |-> "login", preferredName |-> n, password |-> p,
                     seen |-> STUDENTS, student |-> Find(STUDENTS, n),
                     concurrent |-> RefreshPending,
                     resp |-> Login(STUDENTS, MASTER_PORTAL_PW, n, p)]
    /\ UNCHANGED <<phase, MASTER_PORTAL_PW, STUDENTS, loads, started, liveFrom, req>>

\* the directory lookup that opens POST /login, GET /attendance/:preferredName
\* and GET /student/profile/:preferredName: one synchronous read of STUDENTS
Lookup ==
    /\ phase = "serving"
    /\ \E op \in {"login", "attendance", "profile"}, n \in LookupNames :
          lookup' = [op |-> op, preferredName |-> n, password |-> Str0,
                     seen |-> STUDENTS, student |-> Find(STUDENTS, n),
                     concurrent |-> RefreshPending,
                     resp |-> None]
    /\ UNCHANGED <<phase, MASTER_PORTAL_PW, STUDENTS, loads, started, liveFrom, req>>

\* the directory with its refreshes and the lookups of the request handlers
Next ==
    \/ Tick
    \/ \E l \in loads : FetchOk(l)
    \/ \E l \in loads : FetchNotOk(l)
    \/ \E l \in loads : FetchThrows(l)
    \/ \E l \in loads : TextReturns(l)
    \/ \E l \in loads : JsonThrows(l)
    \/ \E l \in loads : JsonReturns(l)
    \/ Lookup

Spec == Init /\ [][Next]_vars

\* the boot load and the logins served from the directory it installs
NextLogin ==
    \/ \E l \in loads : FetchOk(l)
    \/ \E l \in loads : FetchNotOk(l)
    \/ \E l \in loads : FetchThrows(l)
    \/ \E l \in loads : TextReturns(l)
    \/ \E l \in loads : JsonThrows(l)
    \/ \E l \in loads : JsonReturns(l)
    \/ PostLogin

SpecLogin == Init /\ [][NextLogin]_vars

-----------------------------------------------------------------------------
(* Dates: instants are minutes since 2026-01-01T00:00Z *)

DateValue(valid, time) == [valid |-> valid, time |-> time]

InvalidDate == DateValue(FALSE, 0)

\* new Date(text) for the date texts of the store: a date-only ISO text is
\* midnight UTC of that day, any other text here is an Invalid Date
NewDate(text) ==
    CASE text = "2026-01-10" -> DateValue(TRUE, 9 * 24 * 60)
      [] text = "2026-01-11" -> DateValue(TRUE, 10 * 24 * 60)
      [] text = "2026-01-12" -> DateValue(TRUE, 11 * 24 * 60)
      [] text = "2026-01-15" -> DateValue(TRUE, 14 * 24 * 60)
      [] text = "2026-03-31" -> DateValue(TRUE, 89 * 24 * 60)
      [] OTHER -> InvalidDate

\* a >= b on Date objects: false when either is an Invalid Date (NaN)
DateGE(a, b) == a.valid /\ b.valid /\ a.time >= b.time

\* a <= b on Date objects
DateLE(a, b) == a.valid /\ b.valid /\ a.time <= b.time

\* d.setHours(0, 0, 0, 0) in a zone tz minutes east of UTC
StartOfLocalDay(d, tz) ==
    IF ~d.valid THEN d
    ELSE DateValue(TRUE, ((d.time + tz) \div (24 * 60)) * (24 * 60) - tz)

\* d.setHours(23, 59, 59, 999), to the minute
EndOfLocalDay(d, tz) ==
    IF ~d.valid THEN d
    ELSE DateValue(TRUE, StartOfLocalDay(d, tz).time + (24 * 60) - 1)

-----------------------------------------------------------------------------
(* The Attendance and Courses tables *)

AttendanceRow(id, date, courses, name, a, b, c, d) ==
    [id |-> id, Date |-> date, courses |-> courses, PreferredNameText |-> name,
     BlockA |-> a, BlockB |-> b, BlockC |-> c, BlockD |-> d]

SamName == <<"S", "a", "m">>
JoName == <<"J", "o">>
alName == <<"a", "l">>

\* a PreferredNameText field: a text, or the array of a lookup field
Text(name) == [array |-> FALSE, value |-> name]
Linked(names) == [array |-> TRUE, value |-> names]

rowAfter == AttendanceRow("att1", "2026-01-15", <<"recFE">>, Text(SamName),
                          "Absent", "Present", "Tardy", "")
rowFloor == AttendanceRow("att2", "2026-01-12", <<"recFE">>, Text(JoName),
                          "Present", "Absent/Tardy", "", "")
rowBefore == AttendanceRow("att3", "2026-01-10", <<"recFE">>, Text(SamName),
                           "Absent", "Absent", "", "")
rowNoDate == AttendanceRow("att4", "", <<"recBE">>, Text(JoName),
                           "Tardy", "", "", "")
rowBadDate == AttendanceRow("att5", "soon", <<>>, Text(Str0),
                            "Present", "", "", "")
rowOther == AttendanceRow("att6", "2026-01-15", <<"recBE">>, Text(JoName),
                          "Tardy", "Tardy", "Present", "Present")
rowLinked == AttendanceRow("att7", "2026-03-31", <<"recBE", "recFE">>,
                           Linked(<<JoName>>), "Absent", "Tardy", "Tardy", "Late")
rowAl == AttendanceRow("att9", "2026-01-15", <<"recFE">>, Text(alName),
                       "Present", "", "", "")
rowNoName == AttendanceRow("att8", "2026-01-15", <<"recFE">>, Linked(<<>>),
                           "Absent", "", "", "")

\* the records of one page of the Attendance table
AttendancePages ==
    { <<rowAfter, rowFloor, rowAl>>, <<rowBefore, rowNoDate, rowBadDate>>,
      <<rowOther, rowLinked, rowNoName>>, <<>> }

CourseRow(id, name, start, end) ==
    [id |-> id, Name |-> name, StartDate |-> start, EndDate |-> end]

cnFrontend == <<"F", "r", "o", "n", "t", "e", "n", "d">>
cnBE == <<"B", "E", " ", "2", "6">>
cnTCF == <<"T", "C", "F">>
cnMath == <<"M", "a", "t", "h">>

courseFE == CourseRow("recFE", cnFrontend, "2026-01-12", "2026-03-31")
courseBE == CourseRow("recBE", cnBE, "2026-01-10", "2026-01-11")
courseOpen == CourseRow("recTCF", cnTCF, "", "")

\* the records of one page of the Courses table
CoursePages == { <<courseFE, courseBE>>, <<courseOpen, courseFE>>, <<>> }

Cursors == { <<"c", "1">>, <<"c", "2">> }

\* non-success statuses the store answers with
ErrorStatuses == {429, 500}

\* wall clocks of the server: the day of new Date() and the zone's offset east
Clocks ==
    { [now |-> NewDate("2026-01-12"), tz |-> 0],
      [now |-> NewDate("2026-01-11"), tz |-> 0 - 300],
      [now |-> DateValue(TRUE, 89 * 24 * 60 + 600), tz |-> 540],
      [now |-> DateValue(TRUE, 10 * 24 * 60 + 720), tz |-> 0 - 300],
      [now |-> NewDate("2026-01-12"), tz |-> 540] }

ClassNames == {cnFrontend, cnBE, cnTCF, cnMath}

-----------------------------------------------------------------------------
(* GET /attendance/:preferredName *)

\* new Date('2026-01-12')
courseStartDate == NewDate("2026-01-12")

\* the filter callback with the floor itself excluded (date > courseStartDate)
KeepsRecordAfter(record) ==
    IF record.Date = "" THEN FALSE
    ELSE LET date == NewDate(record.Date)
         IN  date.valid /\ date.time > courseStartDate.time

\* the filter callback on allRecords
KeepsRecord(record) ==
    IF record.Date = "" THEN FALSE
    ELSE DateGE(NewDate(record.Date), courseStartDate)

\* the map callback: absent fields become null, written as the empty value
AttendanceView(record) ==
    [id |-> record.id, date |-> record.Date, course |-> record.courses,
     blockA |-> record.BlockA, blockB |-> record.BlockB,
     blockC |-> record.BlockC, blockD |-> record.BlockD]

RECURSIVE FilterRecords(_)
FilterRecords(records) ==
    IF records = <<>> THEN <<>>
    ELSE IF KeepsRecord(Head(records))
         THEN <<Head(records)>> \o FilterRecords(Tail(records))
         ELSE FilterRecords(Tail(records))

AttendanceRecords(allRecords) ==
    LET kept == FilterRecords(allRecords)
    IN  [i \in 1..Len(kept) |-> AttendanceView(kept[i])]

-----------------------------------------------------------------------------
(* Sorting *)

\* the UTF-16 code unit of a character
CodeUnit(c) ==
    CASE c = " " -> 32 [] c = "2" -> 50 [] c = "6" -> 54
      [] c = "B" -> 66 [] c = "C" -> 67 [] c = "E" -> 69 [] c = "F" -> 70
      [] c = "J" -> 74 [] c = "M" -> 77 [] c = "S" -> 83 [] c = "T" -> 84
      [] c = "a" -> 97 [] c = "d" -> 100 [] c = "e" -> 101 [] c = "h" -> 104
      [] c = "l" -> 108 [] c = "m" -> 109
      [] c = "n" -> 110 [] c = "o" -> 111 [] c = "r" -> 114 [] c = "t" -> 116
      [] OTHER -> 0

\* a > b in the default order of sort(): by code units, a prefix first
RECURSIVE CodeUnitAbove(_, _)
CodeUnitAbove(a, b) ==
    IF a = <<>> THEN FALSE
    ELSE IF b = <<>> THEN TRUE
    ELSE IF CodeUnit(Head(a)) # CodeUnit(Head(b))
         THEN CodeUnit(Head(a)) > CodeUnit(Head(b))
    ELSE CodeUnitAbove(Tail(a), Tail(b))

\* the primary weight of a character in the root collation: space, digits,
\* then letters whatever their case
PrimaryWeight(c) ==
    LET l == ToLowerChar(c) IN
    CASE l = " " -> 1 [] l = "a" -> 10 [] l = "d" -> 13 [] l = "e" -> 14
      [] l = "j" -> 19 [] l = "l" -> 21 [] l = "m" -> 22 [] l = "o" -> 24
      [] l = "s" -> 28
      [] OTHER -> 5

RECURSIVE PrimaryCompare(_, _)
PrimaryCompare(a, b) ==
    IF a = <<>> /\ b = <<>> THEN 0
    ELSE IF a = <<>> THEN 0 - 1
    ELSE IF b = <<>> THEN 1
    ELSE IF PrimaryWeight(Head(a)) < PrimaryWeight(Head(b)) THEN 0 - 1
    ELSE IF PrimaryWeight(Head(a)) > PrimaryWeight(Head(b)) THEN 1
    ELSE PrimaryCompare(Tail(a), Tail(b))

\* the case difference that decides between texts of equal primary weights:
\* lower case sorts first
RECURSIVE CaseCompare(_, _)
CaseCompare(a, b) ==
    IF a = <<>> \/ b = <<>> THEN 0
    ELSE IF Head(a) = Head(b) THEN CaseCompare(Tail(a), Tail(b))
    ELSE IF IsLower(Head(a)) /\ IsUpper(Head(b)) THEN 0 - 1
    ELSE IF IsUpper(Head(a)) /\ IsLower(Head(b)) THEN 1
    ELSE CaseCompare(Tail(a), Tail(b))

\* a.localeCompare(b)
LocaleCompare(a, b) ==
    IF PrimaryCompare(a, b) # 0 THEN PrimaryCompare(a, b) ELSE CaseCompare(a, b)

\* the students compared by the code units of their preferredName
SortsAboveCodeUnits(order, a, b) ==
    IF order = "default" THEN CodeUnitAbove(a, b)
    ELSE CodeUnitAbove(a.preferredName, b.preferredName)

\* "a sorts above b" for the two orders of the source: the default order of
\* sort() on texts, and localeCompare on the preferredName of two students
SortsAbove(order, a, b) ==
    IF order = "default" THEN CodeUnitAbove(a, b)
    ELSE LocaleCompare(a.preferredName, b.preferredName) > 0

\* the sorted sequence s with x inserted after the last element not above it
RECURSIVE InsertSorted(_, _, _)
InsertSorted(s, x, order) ==
    IF s = <<>> THEN <<x>>
    ELSE IF SortsAbove(order, Head(s), x) THEN <<x>> \o s
    ELSE <<Head(s)>> \o InsertSorted(Tail(s), x, order)

\* Array.prototype.sort, which is stable
RECURSIVE SortedSeq(_, _)
SortedSeq(s, order) ==
    IF s = <<>> THEN <<>>
    ELSE InsertSorted(SortedSeq(SubSeq(s, 1, Len(s) - 1), order), s[Len(s)], order)

-----------------------------------------------------------------------------
(* GET /teacher/classes *)

\* today = new Date(); today.setHours(0, 0, 0, 0)
Today(clock) == StartOfLocalDay(clock.now, clock.tz)

\* the test of the forEach callback on one course record
IsActiveCourse(record, clock) ==
    /\ record.Name # Str0 /\ record.StartDate # "" /\ record.EndDate # ""
    /\ DateGE(Today(clock), NewDate(record.StartDate))
    /\ DateLE(Today(clock), EndOfLocalDay(NewDate(record.EndDate), clock.tz))

\* allCourses after the forEach over one page
RECURSIVE PushActive(_, _, _)
PushActive(allCourses, records, clock) ==
    IF records = <<>> THEN allCourses
    ELSE PushActive(IF IsActiveCourse(Head(records), clock)
                    THEN Append(allCourses, Head(records).Name)
                    ELSE allCourses,
                    Tail(records), clock)

\* allCourses.sort()
SortedClasses(allCourses) == SortedSeq(allCourses, "default")

-----------------------------------------------------------------------------
(* GET /teacher/class/:className *)

\* what the Courses table answers to the lookup of a class by name
CourseAnswers == { <<courseFE>>, <<courseBE, courseFE>>, <<courseOpen>>, <<>> }

\* text.includes(part)
Includes(text, part) ==
    \E i \in 1..(Len(text) - Len(part) + 1) :
        SubSeq(text, i, i + Len(part) - 1) = part

\* status.includes("Absent") and status.includes("Tardy") on the status texts
\* of the store
IncludesAbsent(status) == status \in {"Absent", "Absent/Tardy"}
IncludesTardy(status) == status \in {"Tardy", "Absent/Tardy"}

\* the filter callback without the test of the date
IsCourseRecordAnyDate(record, courseRecordId, startDate) ==
    \E i \in 1..Len(record.courses) : record.courses[i] = courseRecordId

\* the filter callback on allRecords
IsCourseRecord(record, courseRecordId, startDate) ==
    /\ \E i \in 1..Len(record.courses) : record.courses[i] = courseRecordId
    /\ record.Date # ""
    /\ DateGE(NewDate(record.Date), NewDate(startDate))

RECURSIVE FilterCourseRecords(_, _, _)
FilterCourseRecords(records, courseRecordId, startDate) ==
    IF records = <<>> THEN <<>>
    ELSE IF IsCourseRecord(Head(records), courseRecordId, startDate)
         THEN <<Head(records)>>
              \o FilterCourseRecords(Tail(records), courseRecordId, startDate)
         ELSE FilterCourseRecords(Tail(records), courseRecordId, startDate)

Blocks(record) == <<record.BlockA, record.BlockB, record.BlockC, record.BlockD>>

\* the counts with the tardy marker counted whether or not the block is absent
RECURSIVE CountBlocksBoth(_, _)
CountBlocksBoth(student, blocks) ==
    IF blocks = <<>> THEN student
    ELSE LET status == Head(blocks) IN
         CountBlocksBoth(
            IF status = "" THEN student
            ELSE [student EXCEPT
                    !.totalBlocks = @ + 1,
                    !.absences = IF IncludesAbsent(status) THEN @ + 1 ELSE @,
                    !.tardies = IF IncludesTardy(status) THEN @ + 1 ELSE @],
            Tail(blocks))

\* the counts of one student after the four blocks of one record
RECURSIVE CountBlocks(_, _)
CountBlocks(student, blocks) ==
    IF blocks = <<>> THEN student
    ELSE LET status == Head(blocks) IN
         CountBlocks(
            IF status = "" THEN student
            ELSE [student EXCEPT
                    !.totalBlocks = @ + 1,
                    !.absences = IF IncludesAbsent(status) THEN @ + 1 ELSE @,
                    !.tardies = IF ~IncludesAbsent(status) /\ IncludesTardy(status)
                                THEN @ + 1 ELSE @],
            Tail(blocks))

\* preferredName of the forEach callback: the text, or the first element of the
\* array (undefined, written as the empty text, for an empty array)
PreferredNameOf(record) ==
    LET field == record.PreferredNameText
    IN  IF field.array
        THEN IF field.value = <<>> THEN Str0 ELSE field.value[1]
        ELSE field.value

\* studentMap, in Object.values() order, after the forEach over courseRecords
RECURSIVE Aggregate(_, _)
Aggregate(studentMap, courseRecords) ==
    IF courseRecords = <<>> THEN studentMap
    ELSE LET record == Head(courseRecords)
             name == PreferredNameOf(record)
             known == \E i \in 1..Len(studentMap) : studentMap[i].preferredName = name
             withName == IF known THEN studentMap
                         ELSE Append(studentMap,
                                     [preferredName |-> name, absences |-> 0,
                                      tardies |-> 0, totalBlocks |-> 0])
         IN  IF name = Str0 THEN Aggregate(studentMap, Tail(courseRecords))
             ELSE Aggregate(
                    [i \in 1..Len(withName) |->
                        IF withName[i].preferredName = name
                        THEN CountBlocks(withName[i], Blocks(record))
                        ELSE withName[i]],
                    Tail(courseRecords))

\* what the Students table answers to the lookup of one student's percentages:
\* a record with its three fields (0: field absent), no record, a non-success
\* status, a rejected fetch
PercentAnswers ==
    { [kind |-> "record", FE |-> 10, BE |-> 0, TCF |-> 30],
      [kind |-> "empty", FE |-> 0, BE |-> 0, TCF |-> 0],
      [kind |-> "notok", FE |-> 0, BE |-> 0, TCF |-> 0],
      [kind |-> "throws", FE |-> 0, BE |-> 0, TCF |-> 0] }

Percent(known, value) == [known |-> known, value |-> value]

\* percentMissed with a failed lookup counted as 0
PercentMissedZero(className, answer) ==
    IF answer.kind # "record" THEN Percent(TRUE, 0)
    ELSE Percent(TRUE, answer.FE)

\* percentMissed with the percentage of the first category for every course
PercentMissedFirst(className, answer) ==
    IF answer.kind # "record" THEN Percent(FALSE, 0)
    ELSE Percent(TRUE, answer.FE)

\* percentMissed of one student for the answer to its lookup
PercentMissed(className, answer) ==
    IF answer.kind # "record" THEN Percent(FALSE, 0)
    ELSE IF Includes(className, <<"F", "r", "o", "n", "t", "e", "n", "d">>)
            \/ Includes(className, <<"F", "E">>)
         THEN Percent(TRUE, answer.FE)
    ELSE IF Includes(className, <<"B", "a", "c", "k", "e", "n", "d">>)
            \/ Includes(className, <<"B", "E">>)
         THEN Percent(TRUE, answer.BE)
    ELSE IF Includes(className, <<"T", "C", "F">>)
            \/ Includes(className, <<"I", "T", "P">>)
         THEN Percent(TRUE, answer.TCF)
    ELSE Percent(TRUE, 0)

WithPercent(student, percent) ==
    [preferredName |-> student.preferredName, absences |-> student.absences,
     tardies |-> student.tardies, totalBlocks |-> student.totalBlocks,
     percentMissed |-> percent]

\* studentsWithPercent.sort((a, b) => a.preferredName.localeCompare(b.preferredName))
\* for the answers to the lookups of Promise.all, one per student
ClassStudents(studentMap, className, answers) ==
    SortedSeq([i \in 1..Len(studentMap) |->
                WithPercent(studentMap[i], PercentMissed(className, answers[i]))],
            "locale")

-----------------------------------------------------------------------------
(* The request handlers that drain a table, one request at a time *)

NewRequest(op, arg, clock) ==
    [op |-> op, pc |-> "fetch", arg |-> arg, clock |-> clock, student |-> None,
     course |-> <<>>, courseFetch |-> "", courseRecordId |-> "", startDate |-> "",
     offset |-> NoCursor, allRecords |-> <<>>, allCourses |-> <<>>,
     sent |-> <<NoCursor>>, pages |-> <<>>, status |-> 0, failed |-> FALSE,
     studentMap |-> <<>>, answers |-> <<>>, data |-> <<>>, resp |-> None]

\* the serving process, its directory loaded from one answer of the store
InitDrain ==
    /\ phase = "serving"
    /\ MASTER_PORTAL_PW \in MasterPasswords
    /\ \E t \in Tables :
          /\ liveFrom = Snapshot(FirstPage(t), 1)
          /\ STUDENTS = BuildNext(FirstPage(t).records)
    /\ loads = {}
    /\ started = 1
    /\ lookup = None
    /\ req = None

\* the answer of the catch block of each handler
CaughtResponse(op) ==
    IF op = "attendance"
    THEN Response(500, [error |-> "Server error fetching attendance",
                        message |-> "error.message"])
    ELSE IF op = "classes"
    THEN Response(500, [error |-> "Server error fetching classes"])
    ELSE Response(500, [error |-> "Server error fetching class summary"])

\* a drain hands back the pages it has, as if the table ended there
PartialResponse(r) ==
    IF r.op = "attendance"
    THEN Response(200, [success |-> TRUE, records |-> AttendanceRecords(r.allRecords)])
    ELSE IF r.op = "classes"
    THEN Response(200, [success |-> TRUE, classes |-> SortedClasses(r.allCourses)])
    ELSE Response(200, [success |-> TRUE, students |-> <<>>])

\* the answer inside the loop to a page request with !response.ok
NotOkResponse(r) ==
    IF r.op = "attendance"
    THEN Response(r.status, [error |-> "Failed to fetch from Airtable",
                             details |-> "errorText"])
    ELSE IF r.op = "classes"
    THEN Response(r.status, [error |-> "Failed to fetch classes"])
    ELSE Response(r.status, [error |-> "Failed to fetch class data"])

\* records.concat(allRecords): the pages in the reverse of the order received
ConcatFront(allRecords, records) == records \o allRecords

\* allRecords.concat(data.records || [])
Concat(allRecords, records) == allRecords \o records

\* the cursor is left out of the requests that follow
RequestCursorNone(offset) == NoCursor

\* if (offset) params.set("offset", offset): the cursor the next request carries
RequestCursor(offset) == offset

Done(r, resp) == [r EXCEPT !.pc = "done", !.resp = resp]

dirVars == <<phase, MASTER_PORTAL_PW, STUDENTS, loads, started, liveFrom, lookup>>

\* GET /attendance/:preferredName up to its first request to the store
GetAttendance ==
    /\ req = None
    /\ \E n \in LookupNames :
          LET student == Find(STUDENTS, n)
              r == NewRequest("attendance", n, None)
          IN  req' = IF student = None
                     THEN Done(r, Response(404, [error |-> "Student not found"]))
                     ELSE [r EXCEPT !.student = student]
    /\ UNCHANGED dirVars

\* GET /teacher/classes up to its first request to the store
GetClasses ==
    /\ req = None
    /\ \E clock \in Clocks : req' = NewRequest("classes", Str0, clock)
    /\ UNCHANGED dirVars

\* GET /teacher/class/:className up to the request for the course
GetClass ==
    /\ req = None
    /\ \E className \in ClassNames :
          req' = [NewRequest("class", className, None) EXCEPT !.pc = "course"]
    /\ UNCHANGED dirVars

\* await fetch(Courses?filterByFormula) resolves with courseResponse.ok
CourseFetchOk ==
    /\ req # None /\ req.pc = "course"
    /\ \E answer \in CourseAnswers :
          req' = [req EXCEPT !.pc = "courseJson", !.course = answer,
                             !.courseFetch = "ok"]
    /\ UNCHANGED dirVars

\* the handler from the course record on, without the test of startDate
AfterCourseAnyStart(r, courseRecordId, startDate) ==
    IF courseRecordId = ""
    THEN Done(r, Response(404, [error |-> "Course not found"]))
    ELSE [r EXCEPT !.pc = "fetch", !.courseRecordId = courseRecordId,
                   !.startDate = startDate]

\* the handler from the course record on: 404, 400, or the first page request
AfterCourse(r, courseRecordId, startDate) ==
    IF courseRecordId = ""
    THEN Done(r, Response(404, [error |-> "Course not found"]))
    ELSE IF startDate = ""
    THEN Done(r, Response(400, [error |-> "Course start date not set"]))
    ELSE [r EXCEPT !.pc = "fetch", !.courseRecordId = courseRecordId,
                   !.startDate = startDate]

\* await fetch(Courses?filterByFormula) resolves with !courseResponse.ok
CourseFetchNotOk ==
    /\ req # None /\ req.pc = "course"
    /\ \E status \in ErrorStatuses :
          req' = AfterCourse([req EXCEPT !.courseFetch = "notok",
                                         !.status = status], "", "")
    /\ UNCHANGED dirVars

\* await fetch(Courses?filterByFormula) rejects
CourseFetchThrows ==
    /\ req # None /\ req.pc = "course"
    /\ req' = Done([req EXCEPT !.courseFetch = "throws"], CaughtResponse(req.op))
    /\ UNCHANGED dirVars

\* await courseResponse.json() returns courseData
CourseJsonReturns ==
    /\ req # None /\ req.pc = "courseJson"
    /\ LET r == [req EXCEPT !.courseFetch = "parsed"]
       IN  req' = IF r.course = <<>> THEN AfterCourse(r, "", "")
                  ELSE AfterCourse(r, r.course[1].id, r.course[1].StartDate)
    /\ UNCHANGED dirVars

\* await courseResponse.json() rejects
CourseJsonThrows ==
    /\ req # None /\ req.pc = "courseJson"
    /\ req' = Done([req EXCEPT !.courseFetch = "throws"], CaughtResponse(req.op))
    /\ UNCHANGED dirVars

PagesOf(op) == IF op = "classes" THEN CoursePages ELSE AttendancePages

\* sent and pages keep the first MaxPages requests and answers of a drain
Remember(history, x) ==
    IF Len(history) < MaxPages THEN Append(history, x) ELSE history

\* await fetch(page) resolves with response.ok: the store serves one page, with
\* a cursor when more pages follow
PageFetchOk ==
    /\ req # None /\ req.pc = "fetch"
    /\ \E records \in PagesOf(req.op),
          cursor \in IF Len(req.pages) + 1 < MaxPages
                     THEN Cursors \cup {NoCursor} ELSE {NoCursor} :
          req' = [req EXCEPT
                    !.pc = "json",
                    !.data = [records |-> records, offset |-> cursor],
                    !.pages = Remember(@, [records |-> records, offset |-> cursor])]
    /\ UNCHANGED dirVars

\* await fetch(page) resolves with response.ok, the store being free to hand
\* out a cursor with every page, also one it has handed out before: the first
\* page has records, the pages after it are empty
PageFetchOkAnyCursor ==
    /\ req # None /\ req.pc = "fetch"
    /\ \E records \in IF req.pages = <<>> THEN PagesOf(req.op) ELSE {<<>>},
          cursor \in Cursors \cup {NoCursor} :
          req' = [req EXCEPT
                    !.pc = "json",
                    !.data = [records |-> records, offset |-> cursor],
                    !.pages = Remember(@, [records |-> records, offset |-> cursor])]
    /\ UNCHANGED dirVars

\* await fetch(page) resolves with !response.ok
PageFetchNotOk ==
    /\ req # None /\ req.pc = "fetch"
    /\ \E status \in ErrorStatuses :
          req' = [req EXCEPT !.pc = "text", !.status = status, !.failed = TRUE]
    /\ UNCHANGED dirVars

\* await fetch(page) rejects
PageFetchThrows ==
    /\ req # None /\ req.pc = "fetch"
    /\ req' = Done([req EXCEPT !.failed = TRUE], CaughtResponse(req.op))
    /\ UNCHANGED dirVars

\* await response.text() returns: return res.status(response.status).json(...)
PageTextReturns ==
    /\ req # None /\ req.pc = "text"
    /\ req' = Done(req, NotOkResponse(req))
    /\ UNCHANGED dirVars

\* await response.text() rejects
PageTextThrows ==
    /\ req # None /\ req.pc = "text"
    /\ req' = Done(req, CaughtResponse(req.op))
    /\ UNCHANGED dirVars

\* the handler once the loop has ended
AfterDrain(r) ==
    IF r.op = "attendance"
    THEN Done(r, Response(200, [success |-> TRUE,
                                records |-> AttendanceRecords(r.allRecords)]))
    ELSE IF r.op = "classes"
    THEN Done(r, Response(200, [success |-> TRUE,
                                classes |-> SortedClasses(r.allCourses)]))
    ELSE [r EXCEPT
            !.pc = "lookups",
            !.studentMap =
                Aggregate(<<>>, FilterCourseRecords(r.allRecords, r.courseRecordId,
                                                    r.startDate))]

\* the body of the loop after await response.json() has returned data, and the
\* test of while (offset)
AfterPage(r, data) ==
    LET taken == IF r.op = "classes"
                 THEN [r EXCEPT !.allCourses = PushActive(@, data.records, r.clock)]
                 ELSE [r EXCEPT !.allRecords = Concat(@, data.records)]
        read == [taken EXCEPT !.offset = data.offset]
    IN  IF read.offset # NoCursor
        THEN [read EXCEPT !.pc = "fetch",
                          !.sent = Remember(@, RequestCursor(read.offset))]
        ELSE AfterDrain(read)

\* await response.json() returns data
PageJsonReturns ==
    /\ req # None /\ req.pc = "json"
    /\ req' = AfterPage(req, req.data)
    /\ UNCHANGED dirVars

\* await response.json() rejects
PageJsonThrows ==
    /\ req # None /\ req.pc = "json"
    /\ req' = Done([req EXCEPT !.failed = TRUE], CaughtResponse(req.op))
    /\ UNCHANGED dirVars

\* await Promise.all(...) returns: every lookup has settled, each on its own
\* answer; the students are sorted and sent
LookupsSettle ==
    /\ req # None /\ req.pc = "lookups"
    /\ \E answers \in [1..Len(req.studentMap) -> PercentAnswers] :
          req' = Done([req EXCEPT !.answers = answers], Response(200,
                     [success |-> TRUE,
                      students |-> ClassStudents(req.studentMap, req.arg, answers)]))
    /\ UNCHANGED dirVars

\* a record of the Students table as GET /student/profile reads it; a field
\* that is absent is <<>>, a percentage that is set is <<value>>
ProfileRecord(name, courses, fe, be, tcf) ==
    [PreferredName |-> name, CurrentCourse |-> courses,
     FE |-> fe, BE |-> be, TCF |-> tcf]

profSam == ProfileRecord(SamName, <<"recBE", "recFE">>, <<10>>, <<>>, <<0>>)
profJo == ProfileRecord(JoName, <<>>, <<>>, <<20>>, <<30>>)
profAl == ProfileRecord(<<"A", "l">>, <<"recTCF">>, <<>>, <<>>, <<>>)

\* what the Students table answers to the lookup of a profile by name
ProfileAnswers == { <<profSam>>, <<profJo, profSam>>, <<profAl>>, <<>> }

\* the record of the Courses table with the id; courseNoName has no Name
courseNoName == CourseRow("recTCF", Str0, "2026-01-12", "")

CourseById(id) ==
    CASE id = "recFE" -> courseFE
      [] id = "recBE" -> courseBE
      [] OTHER -> courseNoName

\* fields[name] || 0
OrZero(field) == IF field = <<>> THEN 0 ELSE field[1]

\* courseRecordIds[courseRecordIds.length - 1]
LastCourse(courseRecordIds) == courseRecordIds[Len(courseRecordIds)]

\* courseRecordIds[0]
FirstCourse(courseRecordIds) == courseRecordIds[1]

\* res.json({ success: true, profile }) for the fields and the course name
ProfileResponse(fields, courseName) ==
    Response(200, [success |-> TRUE,
                   profile |-> [preferredName |-> fields.PreferredName,
                                currentCourse |-> courseName,
                                percentMissedFE |-> OrZero(fields.FE),
                                percentMissedBE |-> OrZero(fields.BE),
                                percentMissedTCF |-> OrZero(fields.TCF)]])

ProfileCaught ==
    Response(500, [error |-> "Server error fetching student profile",
                   message |-> "error.message"])

\* GET /student/profile/:preferredName up to its request to the store
GetProfile ==
    /\ req = None
    /\ \E n \in LookupNames :
          LET student == Find(STUDENTS, n)
              r == [NewRequest("profile", n, None) EXCEPT !.pc = "profile"]
          IN  req' = IF student = None
                     THEN Done(r, Response(404, [error |-> "Student not found"]))
                     ELSE [r EXCEPT !.student = student]
    /\ UNCHANGED dirVars

\* await fetch(Students?filterByFormula) resolves with response.ok
ProfileFetchOk ==
    /\ req # None /\ req.pc = "profile"
    /\ \E answer \in ProfileAnswers :
          req' = [req EXCEPT !.pc = "profileJson", !.data = answer]
    /\ UNCHANGED dirVars

\* await fetch(Students?filterByFormula) resolves with !response.ok
ProfileFetchNotOk ==
    /\ req # None /\ req.pc = "profile"
    /\ \E status \in ErrorStatuses :
          req' = [req EXCEPT !.pc = "profileText", !.status = status]
    /\ UNCHANGED dirVars

\* await fetch(Students?filterByFormula) rejects
ProfileFetchThrows ==
    /\ req # None /\ req.pc = "profile"
    /\ req' = Done(req, ProfileCaught)
    /\ UNCHANGED dirVars

\* await response.text() returns
ProfileTextReturns ==
    /\ req # None /\ req.pc = "profileText"
    /\ req' = Done(req, Response(req.status,
                                 [error |-> "Failed to fetch student profile"]))
    /\ UNCHANGED dirVars

\* await response.text() rejects
ProfileTextThrows ==
    /\ req # None /\ req.pc = "profileText"
    /\ req' = Done(req, ProfileCaught)
    /\ UNCHANGED dirVars

\* await response.json() returns data: 404, the profile without course, or
\* the request for the first linked course
ProfileJsonReturns ==
    /\ req # None /\ req.pc = "profileJson"
    /\ req' = IF req.data = <<>>
              THEN Done([req EXCEPT !.courseFetch = "noRecord"],
                        Response(404, [error |-> "Student profile not found"]))
              ELSE IF req.data[1].CurrentCourse = <<>>
              THEN Done([req EXCEPT !.courseFetch = "none"],
                        ProfileResponse(req.data[1], Str0))
              ELSE [req EXCEPT !.pc = "linked", !.courseFetch = "sent",
                       !.courseRecordId = FirstCourse(req.data[1].CurrentCourse)]
    /\ UNCHANGED dirVars

\* await response.json() rejects
ProfileJsonThrows ==
    /\ req # None /\ req.pc = "profileJson"
    /\ req' = Done([req EXCEPT !.courseFetch = "noRecord"], ProfileCaught)
    /\ UNCHANGED dirVars

\* await fetch(Courses/courseRecordId) resolves with courseResponse.ok
LinkedFetchOk ==
    /\ req # None /\ req.pc = "linked"
    /\ req' = [req EXCEPT !.pc = "linkedJson",
                          !.course = <<CourseById(req.courseRecordId)>>]
    /\ UNCHANGED dirVars

\* await fetch(Courses/courseRecordId) resolves with !courseResponse.ok
LinkedFetchNotOk ==
    /\ req # None /\ req.pc = "linked"
    /\ req' = Done([req EXCEPT !.courseFetch = "notok"],
                   ProfileResponse(req.data[1], Str0))
    /\ UNCHANGED dirVars

\* await fetch(Courses/courseRecordId) rejects: the inner catch
LinkedFetchThrows ==
    /\ req # None /\ req.pc = "linked"
    /\ req' = Done([req EXCEPT !.courseFetch = "throws"],
                   ProfileResponse(req.data[1], Str0))
    /\ UNCHANGED dirVars

\* await courseResponse.json() returns: courseData.fields?.Name || null
LinkedJsonReturns ==
    /\ req # None /\ req.pc = "linkedJson"
    /\ req' = Done([req EXCEPT !.courseFetch = "parsed"],
                   ProfileResponse(req.data[1], req.course[1].Name))
    /\ UNCHANGED dirVars

\* await courseResponse.json() rejects: the inner catch
LinkedJsonThrows ==
    /\ req # None /\ req.pc = "linkedJson"
    /\ req' = Done([req EXCEPT !.courseFetch = "throws"],
                   ProfileResponse(req.data[1], Str0))
    /\ UNCHANGED dirVars

\* the response is sent; the server takes the next request
NextRequest ==
    /\ req # None /\ req.pc = "done"
    /\ req' = None
    /\ UNCHANGED dirVars

NextDrain ==
    \/ GetAttendance
    \/ GetClasses
    \/ GetClass
    \/ CourseFetchOk
    \/ CourseFetchNotOk
    \/ CourseFetchThrows
    \/ CourseJsonReturns
    \/ CourseJsonThrows
    \/ PageFetchOk
    \/ PageFetchNotOk
    \/ PageFetchThrows
    \/ PageTextReturns
    \/ PageTextThrows
    \/ PageJsonReturns
    \/ PageJsonThrows
    \/ LookupsSettle
    \/ GetProfile
    \/ ProfileFetchOk
    \/ ProfileFetchNotOk
    \/ ProfileFetchThrows
    \/ ProfileTextReturns
    \/ ProfileTextThrows
    \/ ProfileJsonReturns
    \/ ProfileJsonThrows
    \/ LinkedFetchOk
    \/ LinkedFetchNotOk
    \/ LinkedFetchThrows
    \/ LinkedJsonReturns
    \/ LinkedJsonThrows
    \/ NextRequest

SpecDrain == InitDrain /\ [][NextDrain]_vars

\* the drains against a store that is free in the cursors it hands out; every
\* await settles
NextLoop ==
    \/ GetAttendance
    \/ GetClasses
    \/ GetClass
    \/ CourseFetchOk
    \/ CourseFetchNotOk
    \/ CourseFetchThrows
    \/ CourseJsonReturns
    \/ CourseJsonThrows
    \/ PageFetchOkAnyCursor
    \/ PageFetchNotOk
    \/ PageFetchThrows
    \/ PageTextReturns
    \/ PageTextThrows
    \/ PageJsonReturns
    \/ PageJsonThrows
    \/ LookupsSettle
    \/ NextRequest

\* the awaits of the pagination loop
PageStep ==
    \/ PageFetchThrows
    \/ PageFetchNotOk
    \/ PageFetchOkAnyCursor
    \/ PageTextThrows
    \/ PageTextReturns
    \/ PageJsonThrows
    \/ PageJsonReturns

SpecLoop == InitDrain /\ [][NextLoop]_vars /\ WF_vars(PageStep)

-----------------------------------------------------------------------------
(* Claims on the directory *)

\* the complete mapping the refresh builds from one answer of the store
DirectoryOf(body) == IF body = None THEN <<>> ELSE BuildNext(body.records)

\* C1: the refresh is atomic. In every interleaving of refreshes and lookups the
\* live directory is the complete mapping built from one answer of the store,
\* and what a lookup reads and finds is read and found in that mapping, never
\* in a mix of the entries of two refreshes.
C1_AtomicRefresh ==
    /\ STUDENTS = DirectoryOf(liveFrom)
    /\ lookup # None =>
          /\ lookup.seen = DirectoryOf(liveFrom)
          /\ lookup.student = Find(DirectoryOf(liveFrom), lookup.preferredName)

\* a lookup made while a refresh holds the answer it will build another
\* directory from, the previous directory being non-empty
C1_Witness ==
    /\ lookup # None
    /\ lookup.concurrent
    /\ lookup.seen # <<>>
    /\ lookup.student # None

LoadSucceeds(l) == l.pc = "json" /\ l.body.kind = "json"

C3_TickFailureKeepsProcess == phase # "crashed"

Eligible(r) == r.preferredName # Str0 /\ StudentIdOf(r) # Str0

\* C4: when the store answers with a first page and a next cursor, the directory
\* a successful refresh publishes holds an entry for every record of the table
\* that has an alias and an identity token.
C4_AllPagesPublished ==
    (liveFrom # None /\ liveFrom.offset # NoCursor) =>
        \A i \in 1..Len(liveFrom.table) :
            Eligible(liveFrom.table[i]) =>
                \E j \in 1..Len(STUDENTS) :
                    STUDENTS[j].preferredName = liveFrom.table[i].preferredName

IsLogin == lookup # None /\ lookup.op = "login" /\ lookup.resp # None

\* C5: for every alias A of the live directory with token T, authenticate(A,
\* derive(T)) succeeds without override, and authenticate(A, s) fails for every
\* non-empty s that is neither derive(T) nor the master secret.
C5_DerivedSecretAuthenticates ==
    IsLogin =>
        \A i \in 1..Len(STUDENTS) :
            LET e == STUDENTS[i] IN
            e.preferredName = lookup.preferredName =>
                /\ e.password = derivePassword(e.studentId)
                /\ (lookup.password = e.password /\ e.password # MASTER_PORTAL_PW)
                      => lookup.resp = LoggedIn(e, FALSE)
                /\ lookup.password \notin {Str0, e.password, MASTER_PORTAL_PW}
                      => lookup.resp.status # 200

\* C6: authentication failures are uniform. The answer to a non-empty alias that
\* is not in the directory equals, in status and body, the answer to any known
\* alias with a wrong non-empty secret.
C6_UniformFailure ==
    (/\ IsLogin
     /\ lookup.preferredName # Str0 /\ lookup.password # Str0
     /\ lookup.student = None) =>
        \A n \in LoginNames \ {Str0}, p \in LoginPasswords \ {Str0} :
            (/\ Find(STUDENTS, n) # None
             /\ Login(STUDENTS, MASTER_PORTAL_PW, n, p).status # 200)
                => Login(STUDENTS, MASTER_PORTAL_PW, n, p) = lookup.resp

\* a login with an unknown alias, answered while some known alias has a wrong secret
C6_Witness ==
    /\ IsLogin
    /\ lookup.preferredName # Str0 /\ lookup.password # Str0
    /\ lookup.student = None
    /\ \E n \in LoginNames \ {Str0}, p \in LoginPasswords \ {Str0} :
          /\ Find(STUDENTS, n) # None
          /\ Login(STUDENTS, MASTER_PORTAL_PW, n, p).status # 200

IsOverride(resp) == resp.status = 200 /\ resp.body.staffOverride

\* C7: a login answers staffOverride=true exactly when a master secret is
\* configured, the supplied secret equals it and the alias is found in the live
\* directory; the master secret with an alias that is not found is answered as
\* any failed authentication.
C7_StaffOverride ==
    IsLogin =>
        LET known == lookup.preferredName # Str0
                     /\ Find(lookup.seen, lookup.preferredName) # None
            master == MASTER_PORTAL_PW # Str0 /\ lookup.password = MASTER_PORTAL_PW
        IN  /\ IsOverride(lookup.resp) <=> (master /\ known)
            /\ (master /\ lookup.preferredName # Str0 /\ ~known)
                  => lookup.resp = InvalidCredentials

\* a login answered with staffOverride=true
C7_Witness == IsLogin /\ IsOverride(lookup.resp)

-----------------------------------------------------------------------------
(* Claims on the drains *)

\* the records of the pages, in the order the pages were served
RECURSIVE Flatten(_)
Flatten(pages) ==
    IF pages = <<>> THEN <<>> ELSE Head(pages).records \o Flatten(Tail(pages))

\* the loop of the handler has ended normally
DrainSucceeded ==
    /\ req # None
    /\ req.op \in {"attendance", "classes", "class"}
    /\ req.pc = "lookups" \/ (req.pc = "done" /\ req.resp.status = 200)

\* C8: a drain that succeeds holds exactly the records of every page the store
\* served, pages in the order received and each page in its own order; the
\* first request carries no cursor, each later one the cursor of the page
\* before it, and the drain stops at the first page without a cursor.
C8_DrainConcatenates ==
    req # None =>
        /\ req.sent[1] = NoCursor
        /\ \A i \in 2..Len(req.sent) : req.sent[i] = req.pages[i - 1].offset
        /\ \A i \in 1..(Len(req.pages) - 1) : req.pages[i].offset # NoCursor
        /\ Len(req.pages) <= Len(req.sent)
        /\ DrainSucceeded =>
              /\ Len(req.pages) = Len(req.sent)
              /\ req.pages[Len(req.pages)].offset = NoCursor
              /\ req.op \in {"attendance", "class"}
                    => req.allRecords = Flatten(req.pages)

\* a drain of two pages, both with records, has succeeded
C8_Witness ==
    /\ DrainSucceeded
    /\ req.op = "class"
    /\ Len(req.pages) = 2
    /\ req.pages[1].records # <<>> /\ req.pages[2].records # <<>>
    /\ req.pages[1].records # req.pages[2].records

\* C9: when a page request of a drain fails (non-success status, rejected
\* fetch or body), listAttendance, listActiveCourses and summarizeClass answer
\* with an error only: a non-success status and a body without records,
\* classes or students.
C9_NoPartialResult ==
    (req # None /\ req.failed /\ req.pc = "done") =>
        /\ req.resp.status \notin 200..299
        /\ DOMAIN req.resp.body \subseteq {"error", "details", "message"}

\* the second page request failed with a non-success status after a first page
\* with records, and the response is sent
C9_Witness ==
    /\ req # None /\ req.failed /\ req.pc = "done"
    /\ req.status \in ErrorStatuses
    /\ Len(req.pages) = 1 /\ req.pages[1].records # <<>>
    /\ Len(req.sent) = 2

\* the dates of the store on or after 2026-01-12
OnOrAfterFloor(text) == text \in {"2026-01-12", "2026-01-15", "2026-03-31"}

\* C10: listAttendance returns no row dated before the floor, returns the rows
\* dated on the floor, returns no row whose date is missing or does not parse,
\* and keeps the order the store served the rows in: its rows are, in order,
\* the served rows dated on or after the floor.
C10_AttendanceFloor ==
    (req # None /\ req.op = "attendance" /\ req.pc = "done"
     /\ req.resp.status = 200) =>
        LET out == req.resp.body.records
            expected == SelectSeq(Flatten(req.pages),
                                  LAMBDA r : OnOrAfterFloor(r.Date))
        IN  /\ \A i \in 1..Len(out) :
                  /\ out[i].date # ""
                  /\ NewDate(out[i].date).valid
                  /\ NewDate(out[i].date).time >= courseStartDate.time
            /\ Len(out) = Len(expected)
            /\ \A i \in 1..Len(out) : out[i] = AttendanceView(expected[i])

\* an answer that holds the row dated on the floor and has dropped rows that
\* are earlier, undated or unparsable
C10_Witness ==
    /\ req # None /\ req.op = "attendance" /\ req.pc = "done"
    /\ req.resp.status = 200
    /\ \E i \in 1..Len(req.resp.body.records) :
          req.resp.body.records[i].date = "2026-01-12"
    /\ \E i \in 1..Len(req.allRecords) : req.allRecords[i].Date = "2026-01-10"
    /\ \E i \in 1..Len(req.allRecords) : req.allRecords[i].Date = ""
    /\ \E i \in 1..Len(req.allRecords) : req.allRecords[i].Date = "soon"

-----------------------------------------------------------------------------
(* Claims on the class summary *)

\* GET /teacher/class/:className has answered with a summary
ClassAnswered ==
    /\ req # None /\ req.op = "class" /\ req.pc = "done"
    /\ req.resp.status = 200

\* the dates of the store on or after a start date of the Courses table
DatesFrom(startDate) ==
    CASE startDate = "2026-01-10" ->
            {"2026-01-10", "2026-01-11", "2026-01-12", "2026-01-15", "2026-03-31"}
      [] startDate = "2026-01-12" -> {"2026-01-12", "2026-01-15", "2026-03-31"}
      [] OTHER -> {}

\* the row links the course and is dated on or after the course's start
Qualifies(row, courseId, startDate) ==
    /\ courseId \in {row.courses[i] : i \in 1..Len(row.courses)}
    /\ row.Date \in DatesFrom(startDate)

\* the served rows that qualify for the course of the request
QualifyingRows ==
    SelectSeq(Flatten(req.pages),
              LAMBDA row : Qualifies(row, req.courseRecordId, req.startDate))

\* the blocks, over the rows that carry the alias, whose status is in marks
BlocksMarked(rows, alias, marks) ==
    {<<k, b>> \in (1..Len(rows)) \X (1..4) :
        /\ PreferredNameOf(rows[k]) = alias
        /\ Blocks(rows[k])[b] \in marks}

StatusTexts == {"Absent", "Absent/Tardy", "Tardy", "Present", "Late"}

\* C11: in summarizeClass only the rows that link the resolved course and are
\* dated on or after its start date count: a student is in the output exactly
\* when such a row carries the student's alias, once, and the student's
\* recorded blocks are those of such rows alone.
C11_OnlyQualifyingRows ==
    ClassAnswered =>
        LET students == req.resp.body.students
            rows == QualifyingRows
        IN  /\ {students[i].preferredName : i \in 1..Len(students)}
                  = {PreferredNameOf(rows[k]) : k \in 1..Len(rows)} \ {Str0}
            /\ \A i, j \in 1..Len(students) :
                  students[i].preferredName = students[j].preferredName => i = j
            /\ \A i \in 1..Len(students) :
                  students[i].totalBlocks
                     = Cardinality(BlocksMarked(rows, students[i].preferredName,
                                                StatusTexts))

\* a summary with a student in it, while another student of the served rows is
\* left out: one row of that student links another course, one is too early
C11_Witness ==
    /\ ClassAnswered
    /\ req.resp.body.students # <<>>
    /\ \E row \in {rowBefore, rowOther} :
          /\ \E k \in 1..Len(req.allRecords) : req.allRecords[k] = row
          /\ ~Qualifies(row, req.courseRecordId, req.startDate)
          /\ \A i \in 1..Len(req.resp.body.students) :
                req.resp.body.students[i].preferredName # PreferredNameOf(row)

\* C12: for every student summary, over the student's qualifying rows and
\* their blocks A-D: absences counts the blocks whose status contains the
\* absence marker, tardies the blocks without the absence marker and with the
\* tardy marker, totalBlocks the blocks with a status; and
\* absences + tardies <= totalBlocks <= 4 * (number of qualifying rows).
C12_BlockCounts ==
    ClassAnswered =>
        LET students == req.resp.body.students
            rows == QualifyingRows
        IN  \A i \in 1..Len(students) :
              LET s == students[i]
                  own == {k \in 1..Len(rows) :
                            PreferredNameOf(rows[k]) = s.preferredName}
              IN  /\ s.absences = Cardinality(BlocksMarked(rows, s.preferredName,
                                                 {"Absent", "Absent/Tardy"}))
                  /\ s.tardies = Cardinality(BlocksMarked(rows, s.preferredName,
                                                 {"Tardy"}))
                  /\ s.totalBlocks = Cardinality(BlocksMarked(rows, s.preferredName,
                                                 StatusTexts))
                  /\ s.absences + s.tardies <= s.totalBlocks
                  /\ s.totalBlocks <= 4 * Cardinality(own)

\* a student summed over two qualifying rows, with a block that carries both
\* markers, a tardy block and a block that is neither
C12_Witness ==
    /\ ClassAnswered
    /\ \E i \in 1..Len(req.resp.body.students) :
          LET s == req.resp.body.students[i]
          IN  /\ s.absences = 2 /\ s.tardies = 2 /\ s.totalBlocks = 6
              /\ s.preferredName = JoName

\* the summary sent for the student of studentMap[i]
SummaryOf(i) ==
    LET students == req.resp.body.students
    IN  students[CHOOSE k \in 1..Len(students) :
                    students[k].preferredName = req.studentMap[i].preferredName]

\* the percentage of the course's category in the record of a student
CategoryValue(className, answer) ==
    CASE className = cnFrontend -> answer.FE
      [] className = cnBE -> answer.BE
      [] className = cnTCF -> answer.TCF
      [] OTHER -> 0

LookupFailed(answer) == answer.kind \in {"notok", "throws", "empty"}

\* C13: when the percentage lookup of a student fails (non-success status,
\* rejected fetch, no record), summarizeClass still succeeds with every
\* student in it; that student has percentMissed unknown and the counts of the
\* aggregation, and every other student has the summary of its own lookup,
\* whatever the other lookups got.
C13_LookupFailureIsolated ==
    (req # None /\ req.op = "class" /\ req.pc = "done"
     /\ Len(req.answers) > 0) =>
        /\ req.resp.status = 200
        /\ Len(req.resp.body.students) = Len(req.studentMap)
        /\ \A i \in 1..Len(req.studentMap) :
              LET s == SummaryOf(i)
                  a == req.answers[i]
              IN  /\ s.absences = req.studentMap[i].absences
                  /\ s.tardies = req.studentMap[i].tardies
                  /\ s.totalBlocks = req.studentMap[i].totalBlocks
                  /\ LookupFailed(a) => ~s.percentMissed.known
                  /\ ~LookupFailed(a) =>
                        /\ s.percentMissed.known
                        /\ s.percentMissed.value = CategoryValue(req.arg, a)

\* a summary of three students: the lookup of one failed, the other has its
\* percentage
C13_Witness ==
    /\ ClassAnswered
    /\ Len(req.answers) = 3
    /\ req.arg = cnFrontend
    /\ req.answers[1].kind = "notok" /\ req.answers[2].kind = "record"
    /\ ~SummaryOf(1).percentMissed.known
    /\ SummaryOf(2).percentMissed = Percent(TRUE, 10)
    /\ SummaryOf(1).totalBlocks > 0

NoCategory(className) ==
    \A part \in {<<"F", "r", "o", "n", "t", "e", "n", "d">>, <<"F", "E">>,
                 <<"B", "a", "c", "k", "e", "n", "d">>, <<"B", "E">>,
                 <<"T", "C", "F">>, <<"I", "T", "P">>} :
        \A i \in 1..Len(className) :
            i + Len(part) - 1 > Len(className)
            \/ \E k \in 1..Len(part) : className[i + k - 1] # part[k]

\* C14 as stated: for a course whose name contains none of the category
\* substrings, every student of the summary has percentMissed = 0.
C14_NoCategoryIsZero ==
    (ClassAnswered /\ NoCategory(req.arg)) =>
        \A i \in 1..Len(req.resp.body.students) :
            req.resp.body.students[i].percentMissed = Percent(TRUE, 0)

\* C14: for a course whose name contains none of the category substrings,
\* every student whose percentage lookup returned a record has
\* percentMissed = 0, whatever the record's percentages are; a student whose
\* lookup failed has percentMissed unknown.
C14_NoCategoryIsZeroWhenFound ==
    (ClassAnswered /\ NoCategory(req.arg)) =>
        \A i \in 1..Len(req.studentMap) :
            SummaryOf(i).percentMissed
               = IF req.answers[i].kind = "record"
                 THEN Percent(TRUE, 0) ELSE Percent(FALSE, 0)

\* a summary for a course without category: a student's record has
\* percentages that are not 0 and the summary says 0
C14_Witness ==
    /\ ClassAnswered /\ NoCategory(req.arg)
    /\ \E i \in 1..Len(req.studentMap) :
          /\ req.answers[i].kind = "record"
          /\ req.answers[i].FE # 0 /\ req.answers[i].TCF # 0
          /\ SummaryOf(i).percentMissed = Percent(TRUE, 0)

\* C15: in summarizeClass, when the request that resolves the course gets a
\* non-success status, the caller gets a fetch failure and not "not found":
\* "Course not found" is answered only when the store answered successfully
\* with no matching course record.
C15_CourseFetchFailureSurfaces ==
    (req # None /\ req.op = "class" /\ req.pc = "done"
     /\ req.resp.status = 404) =>
        /\ req.courseFetch = "parsed"
        /\ req.course = <<>>

\* C16: summarizeClass for a course record that has no start date fails with
\* an error; no attendance page is requested and no summary is built.
C16_NoStartDateFails ==
    (req # None /\ req.op = "class" /\ req.courseFetch = "parsed"
     /\ req.course # <<>> /\ req.course[1].StartDate = "") =>
        /\ req.pc = "done"
        /\ req.resp = Response(400, [error |-> "Course start date not set"])
        /\ req.pages = <<>> /\ ~req.failed /\ req.status = 0
        /\ req.allRecords = <<>> /\ req.studentMap = <<>>

\* the course record without start date was read and the request is answered
C16_Witness ==
    /\ req # None /\ req.op = "class" /\ req.courseFetch = "parsed"
    /\ req.course = <<courseOpen>>
    /\ req.pc = "done"

-----------------------------------------------------------------------------
(* Claims on the profile *)

\* the identity record of the profile has been read from the store
ProfileFound ==
    /\ req # None /\ req.op = "profile"
    /\ req.data # <<>>
    /\ req.pc \notin {"profile", "profileText", "profileJson"}
    /\ req.courseFetch # "noRecord"

\* the display names of the Courses table by record id
CourseNameOf(id) ==
    CASE id = "recFE" -> cnFrontend
      [] id = "recBE" -> cnBE
      [] OTHER -> Str0

\* C17: in composeProfile, once the identity record is found, the operation
\* never fails: a linked-course fetch that fails (non-success status or
\* rejection) and a record without linked course give the profile with a null
\* course name; the course looked up is the first linked one; each of the
\* three percentages is the record's value, or 0 when absent.
C17_ProfileDegrades ==
    ProfileFound =>
        LET fields == req.data[1]
        IN  /\ req.pc \in {"linked", "linkedJson", "done"}
            /\ req.pc # "done" =>
                  /\ fields.CurrentCourse # <<>>
                  /\ req.courseRecordId = fields.CurrentCourse[1]
            /\ req.pc = "done" =>
                  /\ req.resp.status = 200
                  /\ req.resp.body.success
                  /\ LET profile == req.resp.body.profile
                     IN  /\ profile.preferredName = fields.PreferredName
                         /\ profile.currentCourse
                               = IF req.courseFetch = "parsed"
                                 THEN CourseNameOf(fields.CurrentCourse[1])
                                 ELSE Str0
                         /\ fields.CurrentCourse = <<>> => req.courseFetch = "none"
                         /\ profile.percentMissedFE
                               = IF fields.FE = <<>> THEN 0 ELSE fields.FE[1]
                         /\ profile.percentMissedBE
                               = IF fields.BE = <<>> THEN 0 ELSE fields.BE[1]
                         /\ profile.percentMissedTCF
                               = IF fields.TCF = <<>> THEN 0 ELSE fields.TCF[1]

\* the fetch of the first of two linked courses failed and the profile is
\* sent, without a course name and with an absent percentage as 0
C17_Witness ==
    /\ ProfileFound /\ req.pc = "done"
    /\ req.courseFetch \in {"notok", "throws"}
    /\ Len(req.data[1].CurrentCourse) = 2
    /\ req.data[1].BE = <<>>
    /\ req.resp.status = 200
    /\ req.resp.body.profile.currentCourse = Str0
    /\ req.resp.body.profile.percentMissedFE = 10

-----------------------------------------------------------------------------
(* Claims on the active courses *)

\* the day of a date text of the store, in days since 2026-01-01
DayOf(text) ==
    CASE text = "2026-01-10" -> 9
      [] text = "2026-01-11" -> 10
      [] text = "2026-01-12" -> 11
      [] text = "2026-01-15" -> 14
      [] text = "2026-03-31" -> 89

\* the calendar day it is on the server's wall clock
LocalDay(clock) == (clock.now.time + clock.tz) \div (24 * 60)

\* the course has a name and both dates, and today is a day of
\* [startDate, endDate]
ActiveOn(course, clock) ==
    /\ course.Name # Str0 /\ course.StartDate # "" /\ course.EndDate # ""
    /\ DayOf(course.StartDate) <= LocalDay(clock)
    /\ LocalDay(clock) <= DayOf(course.EndDate)

\* C18: listActiveCourses returns a course's name if and only if the course
\* has a name, a start date and an end date and today lies within
\* [startDate, endDate], both bounds inclusive: a course that starts today is
\* listed, and a course that ends today is listed until the end of the day.
C18_ActiveWindowInclusive ==
    (req # None /\ req.op = "classes" /\ req.pc = "done"
     /\ req.resp.status = 200) =>
        LET served == Flatten(req.pages)
            classes == req.resp.body.classes
        IN  {classes[i] : i \in 1..Len(classes)}
              = {served[k].Name : k \in {j \in 1..Len(served) :
                                           ActiveOn(served[j], req.clock)}}

-----------------------------------------------------------------------------
(* Claims on the aliases *)

\* ways of writing one alias: they differ in case and surrounding blanks only
AliasClasses ==
    { { <<"s", "a", "m">>, <<"S", "a", "m">>, <<"S", "A", "M">>,
        <<" ", "S", "A", "M", " ">>, <<" ", " ", "s", "a", "M">> },
      { <<"A", "l">>, <<"a", "l", " ">>, <<" ", "A", "L">> },
      { <<"J", "o">>, <<"j", "O">>, <<"J", "O", " ", " ">> } }

\* C19: lookup is case-insensitive and whitespace-trimmed: on the directory a
\* request has looked up, every alias that equals the request's alias after
\* trimming and lower-casing resolves to the entry the request got, or to none
\* when the request got none.
C19_LookupNormalizes ==
    lookup # None =>
        \A class \in AliasClasses :
            lookup.preferredName \in class =>
                \A n \in class : Find(lookup.seen, n) = lookup.student

\* a login found an entry under an alias written in another case and with
\* blanks around it
C19_Witness ==
    /\ lookup # None /\ lookup.op = "login"
    /\ lookup.preferredName = <<" ", "S", "A", "M", " ">>
    /\ lookup.student # None
    /\ lookup.student.preferredName = <<"S", "a", "m">>
    /\ lookup.seen = STUDENTS

\* C20: the live directory is keyed by normalized alias: after any refresh it
\* holds at most one entry per trimmed, lower-cased alias.
C20_OneEntryPerAlias ==
    \A i, j \in 1..Len(STUDENTS) :
        Normalize(STUDENTS[i].preferredName) = Normalize(STUDENTS[j].preferredName)
            => i = j

-----------------------------------------------------------------------------
(* Claims on the entries of the directory *)

\* the identity token of the records of the Students table: the token at the
\* head of the Name, else the StudentID field
TokenOf(r) ==
    CASE r.id = "recA" -> <<"S", "0", "1", "0">>
      [] r.id = "recB" -> <<"S", "0", "1", "1">>
      [] r.id = "recC" -> <<"S", "0", "1", "2">>
      [] r.id = "recD" -> <<"S", "0", "1", "3">>
      [] OTHER -> Str0

\* the records of the answer the live directory was built from
LiveRecords ==
    IF liveFrom = None THEN {}
    ELSE {liveFrom.records[k] : k \in 1..Len(liveFrom.records)}

\* C21: every entry of the live directory has a non-empty alias, a non-empty
\* identity token (the token of the record's Name, else its StudentID field)
\* and the secret derived from that token; a record of the store without alias
\* or without identity token has no entry.
C21_EntriesWellFormed ==
    /\ \A i \in 1..Len(STUDENTS) :
          LET e == STUDENTS[i]
          IN  /\ e.preferredName # Str0
              /\ e.studentId # Str0
              /\ e.password = <<"ac-", PORTAL_PW_SECRET>> \o e.studentId
              /\ \E r \in LiveRecords :
                    /\ r.preferredName = e.preferredName
                    /\ TokenOf(r) = e.studentId
    /\ \A r \in LiveRecords :
          (r.preferredName = Str0 \/ TokenOf(r) = Str0) =>
              \A i \in 1..Len(STUDENTS) :
                  STUDENTS[i].preferredName # r.preferredName

\* a directory built from an answer with a record without alias, whose one
\* entry has the token of the StudentID field
C21_Witness ==
    /\ recNoAlias \in LiveRecords
    /\ Len(STUDENTS) = 1
    /\ STUDENTS[1].studentId = recJo.StudentID

-----------------------------------------------------------------------------
(* Claims on the order of the class summary *)

\* the place of the aliases of the store in locale-aware ascending order
AliasRank(name) ==
    CASE name = alName -> 1
      [] name = JoName -> 2
      [] name = SamName -> 3

\* C22: the sequence summarizeClass returns is sorted by alias, ascending in
\* the locale-aware order, and holds exactly one summary per distinct alias of
\* the qualifying rows.
C22_SortedOnePerAlias ==
    ClassAnswered =>
        LET students == req.resp.body.students
            rows == QualifyingRows
        IN  /\ \A i, j \in 1..Len(students) :
                  i < j => AliasRank(students[i].preferredName)
                              < AliasRank(students[j].preferredName)
            /\ Len(students)
                  = Cardinality({PreferredNameOf(rows[k]) : k \in 1..Len(rows)}
                                \ {Str0})

\* three students, first met in the rows in another order than the sorted
\* one, one of them in two rows
C22_Witness ==
    /\ ClassAnswered
    /\ Len(req.resp.body.students) = 3
    /\ req.studentMap[1].preferredName = SamName
    /\ req.resp.body.students[1].preferredName = alName
    /\ req.resp.body.students[2].totalBlocks = 6

-----------------------------------------------------------------------------
(* Claims on the boot *)

\* the first load has completed and published its directory
BootLoaded == phase = "serving" /\ liveFrom # None

\* C23: the directory is populated before any request is served. A request
\* looks the directory up, and the refresh timer fires, only once the first
\* load has completed successfully; the process starts serving only in the step
\* in which the first load publishes; if the first load fails the process
\* exits, and an exited process takes no further step.
C23_LoadBeforeServing ==
    [][/\ (lookup' # None /\ lookup' # lookup) => BootLoaded
       /\ started' # started => BootLoaded
       /\ (phase = "booting" /\ phase' = "serving") =>
             /\ liveFrom' # None
             /\ \E l \in loads : l.origin = "boot" /\ LoadSucceeds(l)
       /\ (phase = "booting" /\ liveFrom' = None
           /\ (\A l \in loads' : l.origin # "boot")) => phase' = "exited"
       /\ phase # "exited"]_vars

\* the first load has failed and the process has exited: no directory, no
\* timer tick
C23_Witness ==
    /\ phase = "exited"
    /\ STUDENTS = <<>> /\ liveFrom = None
    /\ started = 1 /\ loads = {}

-----------------------------------------------------------------------------
(* Claims on concurrent refreshes *)

\* C24: the directory never goes backwards in freshness: with two refreshes
\* in flight, the live directory is never replaced by a snapshot whose fetch
\* was started earlier than the fetch of the snapshot that is live.
C24_FreshnessMonotonic ==
    [][(liveFrom # None /\ liveFrom' # liveFrom) =>
          liveFrom'.seq > liveFrom.seq]_vars

-----------------------------------------------------------------------------
(* Claims on the password listing script *)

\* C25: for the same store snapshot and key, every (alias, secret) pair the
\* script emits authenticates on the server with staffOverride = false, also
\* for a record whose Name yields no token and that has no StudentID.
C25_ScriptPairsAuthenticate ==
    (lookup # None /\ lookup.op = "login" /\ liveFrom # None
     /\ [preferredName |-> lookup.preferredName, password |-> lookup.password]
           \in ScriptPairs(liveFrom.records)) =>
        /\ lookup.resp.status = 200
        /\ lookup.resp.body.staffOverride = FALSE

-----------------------------------------------------------------------------
(* Claims on the termination of the drains *)

\* the pagination loop of a handler is running
Draining == req # None /\ req.pc \in {"fetch", "json", "text"}

\* the loop has ended: the handler has sent its response, or goes on to the
\* lookups of the class summary
LoopEnded == req # None /\ req.pc \in {"done", "lookups"}

\* C26: every drain ends with a response to the caller: provided every call to
\* the store returns, the pagination loop of listAttendance, listActiveCourses
\* and summarizeClass ends, whatever cursors the store hands out, also when it
\* hands out a cursor it has handed out before.
C26_DrainTerminates == Draining ~> LoopEnded

====
